---- MODULE Spec2Model ----
(***************************************************************************)
(* Model of src/process.py: the ice-chart batch pipeline.  main() lists    *)
(* the bucket, filters the folders, builds one STAC item per accepted      *)
(* folder, appends the new items to the per-item table and re-merges the   *)
(* daily table.  Strings are tuples of one-character strings, dates are    *)
(* triples <<year, month, day>>, an envelope is <<minx, miny, maxx, maxy>>,*)
(* an asset dict {asset_0: a0, asset_1: a1, ...} is the sequence of its    *)
(* values in key order, and a table is the sequence of its rows.           *)
(***************************************************************************)
EXTENDS Integers, Sequences, FiniteSets, TLC

VARIABLES
    STYLE_URL,        \* line 30: the configured style URL ("" when unset)
    items,            \* the rows of geojson_assets.parquet, in order
    daily,            \* the rows of daily_items.parquet, in order
    nruns,            \* number of invocations of main() started so far
    pc,               \* per invocation: the position inside main()
    folders,          \* per invocation: line 123
    idx,              \* per invocation: position of the for loop of line 130
    existing_ids,     \* per invocation: line 128
    new_records,      \* per invocation: line 126
    grouped_items,    \* per invocation: line 127
    existing,         \* per invocation: line 178
    grouped_existing, \* per invocation: line 188
    startItems,       \* history: the per-item table when the invocation started
    startDaily,       \* history: the daily table when the invocation started
    accepted,         \* history: folder names that passed the filters, with outcome
    wroteItems,       \* history: the invocation executed line 182
    rerun,            \* history: the invocation lists what the one before it
                      \*          listed, and that one ran to completion
    overlapped,       \* history: an invocation started while another was running
    fn_in,            \* input of the pure function under check
    fn_out            \* its result

vars == <<STYLE_URL, items, daily, nruns, pc, folders, idx, existing_ids,
          new_records, grouped_items, existing, grouped_existing, startItems,
          startDaily, accepted, wroteItems, rerun, overlapped, fn_in, fn_out>>

(***************************************************************************)
(* Bounds of the model.                                                    *)
(***************************************************************************)
MaxListing == 2
MaxRuns == 2
MaxRows == 2
MaxLinks == 2

(***************************************************************************)
(* Configuration, lines 15-30.                                             *)
(***************************************************************************)
GCS_BUCKET == "cis-ice-charts-public"
SKIP_SUFFIXES == << <<".","t","a","r">> >>
SKIP_PREFIXES == << <<"B","A","D","_">>, <<"T","M","P","_">>, <<"T","E","S","T","_">> >>
START_DATE == <<2025, 1, 1>>
END_DATE == <<2025, 1, 5>>
ASSET_BASE_URL_GEOJSON == "http://127.0.0.1:9091/geojsons"
DEFAULT_STYLE_URL == "https://raw.githubusercontent.com/gtif-cerulean/assets/refs/heads/main/styles/dmi-ice-charts.json"
ASSET_TYPE == "application/geo+json"

None == << >>
NaN == [isdict |-> FALSE]

(***************************************************************************)
(* Strings and dates.                                                      *)
(***************************************************************************)
Digits == <<"0","1","2","3","4","5","6","7","8","9">>

IsDigit(c) == \E i \in 1..10 : Digits[i] = c

DigitVal(c) == (CHOOSE i \in 1..10 : Digits[i] = c) - 1

endswith(s, suffix) ==
    /\ Len(suffix) <= Len(s)
    /\ SubSeq(s, Len(s) - Len(suffix) + 1, Len(s)) = suffix

startswith(s, prefix) ==
    /\ Len(prefix) <= Len(s)
    /\ SubSeq(s, 1, Len(prefix)) = prefix

IsLeap(y) == (y % 4 = 0 /\ y % 100 # 0) \/ y % 400 = 0

DaysInMonth(y, m) ==
    IF m = 2 THEN (IF IsLeap(y) THEN 29 ELSE 28)
    ELSE IF m \in {4, 6, 9, 11} THEN 30 ELSE 31

\* datetime.strptime(token, "%Y%m%d").date(), None on ValueError
strptime(token) ==
    LET y == DigitVal(token[1]) * 1000 + DigitVal(token[2]) * 100
               + DigitVal(token[3]) * 10 + DigitVal(token[4])
        m == DigitVal(token[5]) * 10 + DigitVal(token[6])
        d == DigitVal(token[7]) * 10 + DigitVal(token[8])
    IN  IF y >= 1 /\ m \in 1..12 /\ d >= 1 /\ d <= DaysInMonth(y, m)
        THEN <<y, m, d>>
        ELSE None

\* re.search(r"(\d{8})", folder_name): the leftmost run of eight digits
extract_date(folder_name) ==
    LET starts == {i \in 1..(Len(folder_name) - 7) :
                     \A k \in 0..7 : IsDigit(folder_name[i + k])}
    IN  IF starts = {} THEN None
        ELSE LET i == CHOOSE j \in starts : \A k \in starts : j <= k
             IN  strptime(SubSeq(folder_name, i, i + 7))

should_skip(folder_name) ==
    \/ \E i \in 1..Len(SKIP_SUFFIXES) : endswith(folder_name, SKIP_SUFFIXES[i])
    \/ \E i \in 1..Len(SKIP_PREFIXES) : startswith(folder_name, SKIP_PREFIXES[i])

\* d1 <= d2 on dates
DateLeq(d1, d2) ==
    \/ d1[1] < d2[1]
    \/ d1[1] = d2[1] /\ d1[2] < d2[2]
    \/ d1[1] = d2[1] /\ d1[2] = d2[2] /\ d1[3] <= d2[3]

Pad(n, width) ==
    [k \in 1..width |->
        LET p == width - k
            pow == IF p = 0 THEN 1 ELSE IF p = 1 THEN 10 ELSE IF p = 2 THEN 100 ELSE 1000
        IN  Digits[((n \div pow) % 10) + 1]]

\* date.strftime("%Y-%m-%d")
strftime(date) == Pad(date[1], 4) \o <<"-">> \o Pad(date[2], 2) \o <<"-">> \o Pad(date[3], 2)

\* path.split("/")[-1] on a path held as the tuple of its components
folder_name_of(path) == path[Len(path)]

\* the characters of the model in ASCII order, for the order of str
Alphabet == <<"-", ".", "0", "1", "2", "3", "4", "5", "6", "7", "8", "9",
              "A", "B", "D", "E", "M", "P", "S", "T", "_", "a", "r", "t">>

Ord(c) == CHOOSE i \in 1..Len(Alphabet) : Alphabet[i] = c

RECURSIVE StrLess(_, _)
StrLess(a, b) ==
    IF b = << >> THEN FALSE
    ELSE IF a = << >> THEN TRUE
    ELSE IF Head(a) = Head(b) THEN StrLess(Tail(a), Tail(b))
    ELSE Ord(Head(a)) < Ord(Head(b))

\* sorted(S) for a set of strings
RECURSIVE Sorted(_)
Sorted(S) ==
    IF S = {} THEN << >>
    ELSE LET m == CHOOSE x \in S : \A y \in S \ {x} : StrLess(x, y)
         IN  <<m>> \o Sorted(S \ {m})

(***************************************************************************)
(* Geometry: unary_union(geoms).envelope and .bounds on envelopes.         *)
(***************************************************************************)
EmptyPolygon == <<"EMPTY">>
NaNBounds == <<"nan">>

IsBox(g) == Len(g) = 4

Min(S) == CHOOSE x \in S : \A y \in S : x <= y
Max(S) == CHOOSE x \in S : \A y \in S : x >= y

\* unary_union(geoms).envelope; None and empty members add nothing
Envelope(geoms) ==
    LET boxes == {i \in 1..Len(geoms) : IsBox(geoms[i])}
    IN  IF boxes = {} THEN EmptyPolygon
        ELSE << Min({geoms[i][1] : i \in boxes}), Min({geoms[i][2] : i \in boxes}),
                Max({geoms[i][3] : i \in boxes}), Max({geoms[i][4] : i \in boxes}) >>

\* list(geom.bounds)
Bounds(geom) == IF IsBox(geom) THEN geom ELSE NaNBounds

RECURSIVE Flatten(_)
Flatten(seqs) == IF seqs = << >> THEN << >> ELSE Head(seqs) \o Flatten(Tail(seqs))

(***************************************************************************)
(* add_style_link, lines 60-81.  list(assets.keys()) of a dict keyed       *)
(* asset_0..asset_{n-1} is the sequence of the indices 0..n-1.             *)
(***************************************************************************)
AssetKeys(assets) == [i \in 1..Len(assets) |-> i - 1]

IsStyle(link) == link.rel = "style"

NotStyle(link) == ~IsStyle(link)

\* a variant that keeps the old style links
add_style_link_keeping_old(row) ==
    IF STYLE_URL = "" THEN row.links
    ELSE IF AssetKeys(row.assets) = << >> THEN row.links
    ELSE Append(row.links,
                [rel |-> "style", href |-> STYLE_URL, type |-> "text/vector-styles",
                 keys |-> AssetKeys(row.assets)])

add_style_link(row) ==
    IF STYLE_URL = "" THEN row.links
    ELSE IF AssetKeys(row.assets) = << >> THEN row.links
    ELSE Append(SelectSeq(row.links, NotStyle),
                [rel |-> "style", href |-> STYLE_URL, type |-> "text/vector-styles",
                 keys |-> AssetKeys(row.assets)])

(***************************************************************************)
(* create_stac_item, lines 83-118.                                         *)
(***************************************************************************)
create_stac_item(date, id, assets, asset_type) ==
    IF assets = << >>
    THEN [type |-> "Feature", stac_version |-> "1.0.0", id |-> id, datetime |-> date,
          geometry |-> None, bbox |-> None, assets |-> << >>, links |-> << >>,
          properties |-> [isdict |-> TRUE, invalid |-> TRUE,
                          description |-> "Error downloading or processing assets"]]
    ELSE LET merged_geom == Envelope([i \in 1..Len(assets) |-> assets[i].geometry])
         IN  [type |-> "Feature", stac_version |-> "1.0.0", id |-> id, datetime |-> date,
              geometry |-> merged_geom, bbox |-> Bounds(merged_geom),
              assets |-> [i \in 1..Len(assets) |->
                            [href |-> assets[i].url, type |-> asset_type,
                             roles |-> <<"data">>]],
              links |-> << >>,
              properties |-> NaN]

(***************************************************************************)
(* merge_items_per_day, lines 208-243.                                     *)
(***************************************************************************)
\* props.get("invalid", False) if isinstance(props, dict) else False
InvalidFlag(props) ==
    IF props.isdict
    THEN (IF "invalid" \in DOMAIN props THEN props.invalid ELSE FALSE)
    ELSE FALSE

NotInvalid(row) == ~InvalidFlag(row.properties)

\* a variant without the exclusion of lines 212-213
ExcludeNothing(df) == df

\* lines 212-213
ExcludeInvalid(df) == SelectSeq(df, NotInvalid)

\* lines 216-241 for the rows of one id, in table order
MergeGroup(id_, group) ==
    LET geom == Envelope([i \in 1..Len(group) |-> group[i].geometry])
    IN  [type |-> "Feature", stac_version |-> "1.0.0", id |-> id_,
         geometry |-> geom, bbox |-> Bounds(geom),
         datetime |-> group[1].datetime,
         assets |-> Flatten([i \in 1..Len(group) |-> group[i].assets]),
         links |-> Flatten([i \in 1..Len(group) |-> group[i].links]),
         properties |-> NaN]

merge_items_per_day(df) ==
    LET kept == ExcludeInvalid(df)
        ids == Sorted({kept[i].id : i \in 1..Len(kept)})
        Group(id_) == SelectSeq(kept, LAMBDA r : r.id = id_)
    IN  [k \in 1..Len(ids) |-> MergeGroup(ids[k], Group(ids[k]))]

(***************************************************************************)
(* The environment: the bucket and the remote geometry files.              *)
(***************************************************************************)
Procs == {"p1", "p2"}

Root == <<GCS_BUCKET>>
ICE_A == <<"A","2","0","2","5","0","1","0","3">>
ICE_B == <<"B","2","0","2","5","0","1","0","3">>
ICE_D == <<"A","2","0","2","5","0","1","0","4">>
TmpName == <<"T","M","P","_","2","0","2","5","0","1","0","3">>
LateName == <<"A","2","0","2","5","0","1","0","6">>

FolderNames == {ICE_A, ICE_B, ICE_D, TmpName, LateName}

Paths == {Root} \cup {<<GCS_BUCKET, n>> : n \in FolderNames}

Listings == UNION {[1..n -> Paths] : n \in 0..MaxListing}

\* the geometries gpd.read_file finds in <folder>.geojson
Geojson(folder_name) ==
    IF folder_name = ICE_A THEN << <<0, 0, 2, 1>> >>
    ELSE IF folder_name = ICE_B THEN << <<1, 1, 3, 3>>, <<2, 0, 4, 2>> >>
    ELSE << <<-1, 0, 1, 2>> >>

(***************************************************************************)
(* main, lines 120-206.                                                    *)
(***************************************************************************)
\* a variant that forgets the placeholders, so that failed folders are retried
ExistingValidIds(df) == {df[i].id : i \in {k \in 1..Len(df) : NotInvalid(df[k])}}

\* line 128: set(load_existing_parquet(PARQUET_PATH)["id"])
ExistingIds(df) == {df[i].id : i \in 1..Len(df)}

Running(q) == pc[q] \notin {"idle", "done", "aborted"}

\* a variant without the known-id rule
RejectedIgnoringKnown(folder_name, known) ==
    IF should_skip(folder_name) THEN TRUE
    ELSE LET date == extract_date(folder_name)
         IN  IF date = None THEN TRUE
             ELSE ~(DateLeq(START_DATE, date) /\ DateLeq(date, END_DATE))

\* lines 133-138: the folder is passed over
Rejected(folder_name, known) ==
    IF should_skip(folder_name) \/ folder_name \in known THEN TRUE
    ELSE LET date == extract_date(folder_name)
         IN  IF date = None THEN TRUE
             ELSE ~(DateLeq(START_DATE, date) /\ DateLeq(date, END_DATE))

asset_url(folder_name) == <<ASSET_BASE_URL_GEOJSON, folder_name \o <<".","g","e","o","j","s","o","n">> >>

AfterLoop(i, fs) == IF i > Len(fs) THEN "load" ELSE "loop"

\* line 123
RemoveRoot(listing) == SelectSeq(listing, LAMBDA f : f # Root)

\* history kept when an invocation starts; again: it follows a completed
\* invocation whose listing fs.ls returns once more
Begin(p, again) ==
    /\ nruns < MaxRuns
    /\ pc[p] = (IF again THEN "done" ELSE "idle")
    /\ nruns' = nruns + 1
    /\ startItems' = [startItems EXCEPT ![p] = items]
    /\ startDaily' = [startDaily EXCEPT ![p] = daily]
    /\ accepted' = [accepted EXCEPT ![p] = << >>]
    /\ wroteItems' = [wroteItems EXCEPT ![p] = FALSE]
    /\ rerun' = [rerun EXCEPT ![p] = again]
    /\ overlapped' = (overlapped \/ \E q \in Procs \ {p} : Running(q))

\* lines 121-128, fs.ls returning listing
Listed(p, listing) ==
    /\ folders' = [folders EXCEPT ![p] = RemoveRoot(listing)]
    /\ new_records' = [new_records EXCEPT ![p] = << >>]
    /\ grouped_items' = [grouped_items EXCEPT ![p] = << >>]
    /\ existing_ids' = [existing_ids EXCEPT ![p] = ExistingIds(items)]
    /\ idx' = [idx EXCEPT ![p] = 1]
    /\ pc' = [pc EXCEPT ![p] = AfterLoop(1, RemoveRoot(listing))]
    /\ UNCHANGED <<STYLE_URL, items, daily, existing, grouped_existing,
                   fn_in, fn_out>>

\* main() is invoked
ListFolders(p, listing) == Begin(p, FALSE) /\ Listed(p, listing)

\* main() is invoked once more after a completed invocation and the bucket
\* lists what it listed then
ListAgain(p) == Begin(p, TRUE) /\ Listed(p, folders[p])

\* line 122 or line 128: fs.ls or load_existing_parquet raises; nothing
\* but the locals of the frame has been assigned
Raise(p) ==
    /\ pc' = [pc EXCEPT ![p] = "aborted"]
    /\ UNCHANGED <<STYLE_URL, items, daily, folders, idx, existing_ids,
                   new_records, grouped_items, existing, grouped_existing,
                   fn_in, fn_out>>

\* line 122: fs.ls raises
ListFails(p) == Begin(p, FALSE) /\ Raise(p)

\* line 128: load_existing_parquet raises
LoadIdsFails(p) == Begin(p, FALSE) /\ Raise(p)

\* main() has returned or raised: its frame is gone
Return(p) ==
    /\ pc[p] \in {"done", "aborted"}
    /\ pc' = [pc EXCEPT ![p] = "idle"]
    /\ folders' = [folders EXCEPT ![p] = << >>]
    /\ idx' = [idx EXCEPT ![p] = 1]
    /\ existing_ids' = [existing_ids EXCEPT ![p] = {}]
    /\ new_records' = [new_records EXCEPT ![p] = << >>]
    /\ grouped_items' = [grouped_items EXCEPT ![p] = << >>]
    /\ existing' = [existing EXCEPT ![p] = << >>]
    /\ grouped_existing' = [grouped_existing EXCEPT ![p] = << >>]
    /\ startItems' = [startItems EXCEPT ![p] = << >>]
    /\ startDaily' = [startDaily EXCEPT ![p] = << >>]
    /\ accepted' = [accepted EXCEPT ![p] = << >>]
    /\ wroteItems' = [wroteItems EXCEPT ![p] = FALSE]
    /\ rerun' = [rerun EXCEPT ![p] = FALSE]
    /\ UNCHANGED <<STYLE_URL, items, daily, nruns, overlapped, fn_in, fn_out>>

Current(p) == folder_name_of(folders[p][idx[p]])

InLoop(p) == pc[p] = "loop" /\ idx[p] <= Len(folders[p])

Advance(p) ==
    /\ idx' = [idx EXCEPT ![p] = idx[p] + 1]
    /\ pc' = [pc EXCEPT ![p] = AfterLoop(idx[p] + 1, folders[p])]
    /\ UNCHANGED <<STYLE_URL, items, daily, nruns, folders, existing_ids,
                   existing, grouped_existing, startItems, startDaily, wroteItems,
                   rerun, overlapped, fn_in, fn_out>>

\* lines 133-138: continue
SkipFolder(p) ==
    /\ InLoop(p)
    /\ Rejected(Current(p), existing_ids[p])
    /\ Advance(p)
    /\ UNCHANGED <<new_records, grouped_items, accepted>>

\* a variant that passes over a failed folder without recording it
PlaceholderUnrecorded(p) ==
    /\ accepted' = [accepted EXCEPT ![p] = Append(@, [name |-> Current(p), ok |-> FALSE])]
    /\ Advance(p)
    /\ UNCHANGED <<new_records, grouped_items>>

\* lines 144-147, 156-159, 166-169: the placeholder record and continue
Placeholder(p) ==
    /\ new_records' = [new_records EXCEPT ![p] =
           Append(@, create_stac_item(extract_date(Current(p)), Current(p), << >>, ASSET_TYPE))]
    /\ accepted' = [accepted EXCEPT ![p] = Append(@, [name |-> Current(p), ok |-> FALSE])]
    /\ Advance(p)
    /\ UNCHANGED grouped_items

\* lines 141-147: fs.exists is false
MissingAsset(p) ==
    /\ InLoop(p)
    /\ ~Rejected(Current(p), existing_ids[p])
    /\ Placeholder(p)

\* lines 151-159: the download raises
DownloadFails(p) ==
    /\ InLoop(p)
    /\ ~Rejected(Current(p), existing_ids[p])
    /\ Placeholder(p)

\* lines 161-169: read_file or unary_union raises
ParseFails(p) ==
    /\ InLoop(p)
    /\ ~Rejected(Current(p), existing_ids[p])
    /\ Placeholder(p)

\* grouped_items[date].append(entry) on a defaultdict(list), held as the
\* sequence of its (date, list) pairs in insertion order
DictAppend(d, date, entry) ==
    IF \E i \in 1..Len(d) : d[i].date = date
    THEN [i \in 1..Len(d) |->
            IF d[i].date = date
            THEN [date |-> date, assets |-> Append(d[i].assets, entry)]
            ELSE d[i]]
    ELSE Append(d, [date |-> date, assets |-> <<entry>>])

\* lines 161-175: the file is read and the item is built
BuildItem(p) ==
    /\ InLoop(p)
    /\ ~Rejected(Current(p), existing_ids[p])
    /\ LET date == extract_date(Current(p))
           geom == Envelope(Geojson(Current(p)))
           entry == [url |-> asset_url(Current(p)), geometry |-> geom]
       IN  /\ new_records' = [new_records EXCEPT ![p] =
                  Append(@, create_stac_item(date, Current(p), <<entry>>, ASSET_TYPE))]
           /\ grouped_items' = [grouped_items EXCEPT ![p] = DictAppend(@, date, entry)]
    /\ accepted' = [accepted EXCEPT ![p] = Append(@, [name |-> Current(p), ok |-> TRUE])]
    /\ Advance(p)

\* a step that touches only pc and what is named in the conjuncts beside it
Frame ==
    UNCHANGED <<STYLE_URL, nruns, folders, idx, existing_ids, new_records,
                grouped_items, startItems, startDaily, accepted, rerun,
                overlapped, fn_in, fn_out>>

\* line 178
LoadExisting(p) ==
    /\ pc[p] = "load"
    /\ existing' = [existing EXCEPT ![p] = items]
    /\ pc' = [pc EXCEPT ![p] = "save"]
    /\ Frame
    /\ UNCHANGED <<items, daily, grouped_existing, wroteItems>>

\* line 178: load_existing_parquet raises
LoadExistingFails(p) ==
    /\ pc[p] = "load"
    /\ pc' = [pc EXCEPT ![p] = "aborted"]
    /\ Frame
    /\ UNCHANGED <<items, daily, existing, grouped_existing, wroteItems>>

\* a variant that writes the new records alone
UpdatedNewOnly(old, new) == new

\* line 181: pd.concat([existing, df])
Updated(old, new) == old \o new

\* lines 179-185
SaveItems(p) ==
    /\ pc[p] = "save"
    /\ IF new_records[p] # << >>
       THEN /\ items' = Updated(existing[p], new_records[p])
            /\ wroteItems' = [wroteItems EXCEPT ![p] = TRUE]
       ELSE UNCHANGED <<items, wroteItems>>
    /\ pc' = [pc EXCEPT ![p] = "loadGrouped"]
    /\ Frame
    /\ UNCHANGED <<daily, existing, grouped_existing>>

\* line 188
LoadGrouped(p) ==
    /\ pc[p] = "loadGrouped"
    /\ grouped_existing' = [grouped_existing EXCEPT ![p] = daily]
    /\ pc' = [pc EXCEPT ![p] = "saveGrouped"]
    /\ Frame
    /\ UNCHANGED <<items, daily, existing, wroteItems>>

\* line 188: load_existing_parquet raises
LoadGroupedFails(p) ==
    /\ pc[p] = "loadGrouped"
    /\ pc' = [pc EXCEPT ![p] = "aborted"]
    /\ Frame
    /\ UNCHANGED <<items, daily, existing, grouped_existing, wroteItems>>

\* lines 189-199
Merged(old, grouped) ==
    old \o [i \in 1..Len(grouped) |->
              create_stac_item(grouped[i].date, strftime(grouped[i].date),
                               grouped[i].assets, ASSET_TYPE)]

\* lines 202-204
Final(merged) ==
    LET final == merge_items_per_day(merged)
    IN  [i \in 1..Len(final) |-> [final[i] EXCEPT !.links = add_style_link(final[i])]]

\* lines 189-205
SaveGrouped(p) ==
    /\ pc[p] = "saveGrouped"
    /\ daily' = Final(Merged(grouped_existing[p], grouped_items[p]))
    /\ pc' = [pc EXCEPT ![p] = "done"]
    /\ Frame
    /\ UNCHANGED <<items, existing, grouped_existing, wroteItems>>

Step(p) ==
    \/ SkipFolder(p)
    \/ MissingAsset(p)
    \/ DownloadFails(p)
    \/ ParseFails(p)
    \/ BuildItem(p)
    \/ LoadExisting(p)
    \/ LoadExistingFails(p)
    \/ SaveItems(p)
    \/ LoadGrouped(p)
    \/ LoadGroupedFails(p)
    \/ SaveGrouped(p)

Start(p) ==
    \/ \E listing \in Listings : ListFolders(p, listing)
    \/ ListAgain(p)
    \/ ListFails(p)
    \/ LoadIdsFails(p)

InitTables ==
    /\ items = << >>
    /\ daily = << >>
    /\ nruns = 0
    /\ pc = [p \in Procs |-> "idle"]
    /\ folders = [p \in Procs |-> << >>]
    /\ idx = [p \in Procs |-> 1]
    /\ existing_ids = [p \in Procs |-> {}]
    /\ new_records = [p \in Procs |-> << >>]
    /\ grouped_items = [p \in Procs |-> << >>]
    /\ existing = [p \in Procs |-> << >>]
    /\ grouped_existing = [p \in Procs |-> << >>]
    /\ startItems = [p \in Procs |-> << >>]
    /\ startDaily = [p \in Procs |-> << >>]
    /\ accepted = [p \in Procs |-> << >>]
    /\ wroteItems = [p \in Procs |-> FALSE]
    /\ rerun = [p \in Procs |-> FALSE]
    /\ overlapped = FALSE

\* one invocation at a time, as the job is run
Init ==
    /\ STYLE_URL = DEFAULT_STYLE_URL
    /\ InitTables
    /\ fn_in = << >>
    /\ fn_out = [done |-> FALSE]

Next ==
    \/ Start("p1")
    \/ Step("p1")
    \/ Return("p1")

Spec == Init /\ [][Next]_vars

(***************************************************************************)
(* Two invocations of main() against the same tables, each run once, their *)
(* steps interleaved.                                                      *)
(***************************************************************************)
\* p1 is the invocation that starts first
StartFirst == \E listing \in Listings : ListFolders("p1", listing)

\* the bucket lists the same folders to the invocation that starts second
StartSecond ==
    /\ pc["p1"] # "idle"
    /\ ListFolders("p2", folders["p1"])

NextConc ==
    \/ StartFirst
    \/ StartSecond
    \/ \E p \in Procs : Step(p)

SpecConc == Init /\ [][NextConc]_vars

(***************************************************************************)
(* merge_items_per_day applied to a table.                                 *)
(***************************************************************************)
DayIds == {strftime(<<2025, 1, 3>>), strftime(<<2025, 1, 4>>)}

PropertyValues ==
    {NaN, [isdict |-> TRUE], [isdict |-> TRUE, invalid |-> FALSE],
     [isdict |-> TRUE, invalid |-> TRUE]}

GeometryValues == {None, <<0, 0, 2, 1>>, <<1, 1, 3, 3>>}

\* the asset a row carries tells which kind of row it came from
AssetOf(props, geom) ==
    [href |-> <<ASSET_BASE_URL_GEOJSON, props, geom>>, type |-> ASSET_TYPE,
     roles |-> <<"data">>]

TableRows ==
    {[type |-> "Feature", stac_version |-> "1.0.0", id |-> i,
      datetime |-> strptime(SelectSeq(i, IsDigit)), geometry |-> g,
      bbox |-> (IF g = None THEN None ELSE g),
      assets |-> (IF a THEN <<AssetOf(pr, g)>> ELSE << >>), links |-> << >>,
      properties |-> pr] :
        i \in DayIds, pr \in PropertyValues, g \in GeometryValues, a \in BOOLEAN}

Tables == UNION {[1..n -> TableRows] : n \in 0..MaxRows}

InitMerge ==
    /\ STYLE_URL = DEFAULT_STYLE_URL
    /\ InitTables
    /\ fn_in \in Tables
    /\ fn_out = [done |-> FALSE]

Untouched ==
    UNCHANGED <<STYLE_URL, items, daily, nruns, pc, folders, idx, existing_ids,
                new_records, grouped_items, existing, grouped_existing,
                startItems, startDaily, accepted, wroteItems, rerun, overlapped>>

MergeTable ==
    /\ ~fn_out.done
    /\ fn_out' = [done |-> TRUE, value |-> merge_items_per_day(fn_in)]
    /\ UNCHANGED fn_in
    /\ Untouched

NextMerge == MergeTable

SpecMerge == InitMerge /\ [][NextMerge]_vars

(***************************************************************************)
(* add_style_link applied to a record, then to the record carrying the     *)
(* links it returned (line 204 over two invocations).                      *)
(***************************************************************************)
LinkValues ==
    {[rel |-> "self", href |-> "daily_items.parquet", type |-> "application/x-parquet",
      keys |-> << >>],
     [rel |-> "license", href |-> "LICENSE", type |-> "text/plain", keys |-> << >>],
     [rel |-> "style", href |-> "old-style.json", type |-> "text/vector-styles",
      keys |-> <<0, 1, 2, 3, 4>>]}

StyleRows ==
    {[type |-> "Feature", stac_version |-> "1.0.0", id |-> strftime(<<2025, 1, 3>>),
      datetime |-> <<2025, 1, 3>>, geometry |-> <<0, 0, 2, 1>>, bbox |-> <<0, 0, 2, 1>>,
      assets |-> [k \in 1..n |-> AssetOf(NaN, <<k, 0, 2, 1>>)], links |-> ls,
      properties |-> NaN] :
        n \in 0..MaxRows, ls \in UNION {[1..m -> LinkValues] : m \in 0..MaxLinks}}

InitStyle ==
    /\ STYLE_URL \in {"", DEFAULT_STYLE_URL}
    /\ InitTables
    /\ fn_in \in StyleRows
    /\ fn_out = [done |-> FALSE]

StyleOnce ==
    /\ ~fn_out.done
    /\ fn_out' = [done |-> TRUE, times |-> 1, links |-> add_style_link(fn_in)]
    /\ UNCHANGED fn_in
    /\ Untouched

StyleAgain ==
    /\ fn_out.done
    /\ fn_out.times = 1
    /\ fn_out' = [done |-> TRUE, times |-> 2,
                  links |-> add_style_link([fn_in EXCEPT !.links = fn_out.links])]
    /\ UNCHANGED fn_in
    /\ Untouched

NextStyle == StyleOnce \/ StyleAgain

SpecStyle == InitStyle /\ [][NextStyle]_vars

(***************************************************************************)
(* Properties of the sequential job.                                       *)
(***************************************************************************)
RowInvalid(r) ==
    /\ r.properties.isdict
    /\ "invalid" \in DOMAIN r.properties
    /\ r.properties.invalid = TRUE

Hrefs(assets) == {assets[i].href : i \in 1..Len(assets)}

AllHrefs(df) == UNION {Hrefs(df[i].assets) : i \in 1..Len(df)}

IsPrefix(a, b) == Len(a) <= Len(b) /\ SubSeq(b, 1, Len(a)) = a

BoundingBox(boxes) ==
    << Min({b[1] : b \in boxes}), Min({b[2] : b \in boxes}),
       Max({b[3] : b \in boxes}), Max({b[4] : b \in boxes}) >>

ValidRows(df) == {i \in 1..Len(df) : ~RowInvalid(df[i])}

DaysOf(df) == {df[i].datetime : i \in ValidRows(df)}

DailyIsAggregate(df, agg) ==
    /\ \A d \in DaysOf(df) :
         LET rows == {i \in ValidRows(df) : df[i].datetime = d}
             hits == {k \in 1..Len(agg) : agg[k].id = strftime(d)}
         IN  /\ Cardinality(hits) = 1
             /\ \A k \in hits :
                  /\ Hrefs(agg[k].assets) = UNION {Hrefs(df[i].assets) : i \in rows}
                  /\ agg[k].geometry = BoundingBox({df[i].geometry : i \in rows})
    /\ \A k \in 1..Len(agg) : \E d \in DaysOf(df) : agg[k].id = strftime(d)

\* the folder names the loop has passed so far that discovery accepts
AcceptedSoFar(p) ==
    SelectSeq([k \in 1..(idx[p] - 1) |-> folder_name_of(folders[p][k])],
              LAMBDA n : ~Rejected(n, existing_ids[p]))

InvocationLive(p) == pc[p] \notin {"idle", "aborted"}

\* C1: no two rows of the persisted per-item table have the same id.
C1_UniqueIds ==
    \A i, j \in 1..Len(items) : items[i].id = items[j].id => i = j

\* C2: after every completed invocation the daily table is the aggregation
\* of the per-item table: one row per day that has a non-invalid item, with
\* the hrefs and the envelope of that day's non-invalid items, and no other row.
C2_DailyIsAggregate ==
    \A p \in Procs : pc[p] = "done" => DailyIsAggregate(items, daily)

\* C3: an invocation that aborts on a failed listing or table load leaves
\* both tables as they were when it started.
C3_NoPartialSave ==
    \A p \in Procs :
        pc[p] = "aborted" => items = startItems[p] /\ daily = startDaily[p]

C5_PlaceholderNeverRetried ==
    \A p \in Procs :
        pc[p] # "idle" =>
            \A i \in 1..Len(startItems[p]) :
                RowInvalid(startItems[p][i]) =>
                    LET f == startItems[p][i].id
                    IN  /\ \A k \in 1..Len(new_records[p]) : new_records[p][k].id # f
                        /\ \A k \in 1..Len(accepted[p]) : accepted[p][k].name # f
                        /\ i <= Len(items) /\ items[i] = startItems[p][i]
                        /\ asset_url(f) \in AllHrefs(daily)
                              => asset_url(f) \in AllHrefs(startDaily[p])

C5_Witness ==
    \E p \in Procs :
        /\ pc[p] = "done"
        /\ \E i \in 1..Len(startItems[p]) :
             /\ RowInvalid(startItems[p][i])
             /\ \A j \in 1..Len(startItems[p]) :
                  startItems[p][j].id = startItems[p][i].id => RowInvalid(startItems[p][j])
             /\ \E k \in 1..Len(folders[p]) :
                  folder_name_of(folders[p][k]) = startItems[p][i].id

\* C6: an invocation that follows a completed one with the same listing
\* accepts no folder and adds no row to the per-item table.
C6_RerunAcceptsNothing ==
    \A p \in Procs :
        (pc[p] = "done" /\ rerun[p]) =>
            /\ AcceptedSoFar(p) = << >>
            /\ new_records[p] = << >>
            /\ items = startItems[p]

C6_Witness ==
    \E p \in Procs :
        /\ pc[p] = "done"
        /\ rerun[p]
        /\ \E k \in 1..Len(folders[p]) : ~Rejected(folder_name_of(folders[p][k]), {})

\* C9: the per-item table is append-only: the rows an invocation found are
\* kept in place, the rows it built follow them, and an invocation that
\* built no record does not write the table.
C9_AppendOnly ==
    \A p \in Procs :
        pc[p] # "idle" =>
            /\ IsPrefix(startItems[p], items)
            /\ wroteItems[p] =>
                  new_records[p] # << >> /\ items = startItems[p] \o new_records[p]
            /\ ~wroteItems[p] => items = startItems[p]

C9_Witness ==
    \E p \in Procs :
        pc[p] = "done" /\ wroteItems[p] /\ startItems[p] # << >>

(***************************************************************************)
(* Properties of merge_items_per_day, add_style_link and of overlapping    *)
(* invocations.                                                            *)
(***************************************************************************)
RECURSIVE Concat(_)
Concat(seqs) == IF seqs = << >> THEN << >> ELSE Head(seqs) \o Concat(Tail(seqs))

ValidOnly(df) == SelectSeq(df, LAMBDA r : ~RowInvalid(r))

MergeApplied == "value" \in DOMAIN fn_out

StyledTwice == "times" \in DOMAIN fn_out /\ fn_out.times = 2

\* C7: merge_items_per_day leaves the invalid rows out before it groups:
\* the result is that of the table without them, with one record per id
\* that has a valid row, made of the valid rows' geometries and assets.
C7_InvalidExcluded ==
    MergeApplied =>
        LET out == fn_out.value
            valid == ValidOnly(fn_in)
            ids == {valid[i].id : i \in 1..Len(valid)}
        IN  /\ out = merge_items_per_day(valid)
            /\ Len(out) = Cardinality(ids)
            /\ {out[k].id : k \in 1..Len(out)} = ids
            /\ \A k \in 1..Len(out) :
                 LET group == SelectSeq(valid, LAMBDA r : r.id = out[k].id)
                     boxes == {group[i].geometry : i \in 1..Len(group)} \ {None}
                 IN  /\ out[k].assets = Concat([i \in 1..Len(group) |-> group[i].assets])
                     /\ out[k].geometry =
                          (IF boxes = {} THEN EmptyPolygon ELSE BoundingBox(boxes))

C7_Witness ==
    /\ MergeApplied
    /\ Len(fn_in) = 2
    /\ fn_in[1].id = fn_in[2].id
    /\ RowInvalid(fn_in[1]) /\ fn_in[1].assets # << >> /\ fn_in[1].geometry # None
    /\ ~RowInvalid(fn_in[2]) /\ fn_in[2].assets # << >> /\ fn_in[2].geometry # None
    /\ fn_in[1].geometry # fn_in[2].geometry

\* C8: with a style URL configured and at least one asset, add_style_link
\* applied twice leaves exactly one style link, carrying the record's asset
\* keys, after the non-style links in their order.
C8_StyleLinkIdempotent ==
    (StyledTwice /\ STYLE_URL # "" /\ fn_in.assets # << >>) =>
        LET ls == fn_out.links
            styles == {i \in 1..Len(ls) : ls[i].rel = "style"}
        IN  /\ Cardinality(styles) = 1
            /\ \A i \in styles :
                 /\ ls[i].keys = [k \in 1..Len(fn_in.assets) |-> k - 1]
                 /\ ls[i].href = STYLE_URL
            /\ SelectSeq(ls, LAMBDA l : l.rel # "style")
                 = SelectSeq(fn_in.links, LAMBDA l : l.rel # "style")

C8_Witness ==
    /\ StyledTwice
    /\ STYLE_URL # ""
    /\ fn_in.assets # << >>
    /\ \E i, j \in 1..Len(fn_in.links) :
         fn_in.links[i].rel = "style" /\ fn_in.links[j].rel # "style"

Saved(p) == IF wroteItems[p] THEN new_records[p] ELSE << >>

\* a row that an invocation saved is no longer in the per-item table
LostRow ==
    \E p \in Procs : \E k \in 1..Len(Saved(p)) :
        \A i \in 1..Len(items) : items[i] # Saved(p)[k]

\* both invocations saved a row for the same folder
SavedTwice ==
    \E k \in 1..Len(Saved("p1")) : \E m \in 1..Len(Saved("p2")) :
        Saved("p1")[k].id = Saved("p2")[m].id

\* C10: only invocations that overlap in time lose a saved row or save the
\* same folder twice; one after the other they never do.
C10_RaceNeedsOverlap == (LostRow \/ SavedTwice) => overlapped

C10_Witness ==
    /\ \A p \in Procs : pc[p] = "done"
    /\ LostRow

====
